---- MODULE Spec2Model ----
(***************************************************************************)
(* Session authentication of the JauMemory MCP server: the AuthManager     *)
(* (src/src/auth/AuthManager.ts), the tools that drive it (mcp_login,      *)
(* mcp_authenticate, mcp_logout) and the wiring of the server entry point. *)
(*                                                                         *)
(* The host is Node.js: one thread, handlers interleave only at an await   *)
(* of real I/O (an HTTP request, a file system call, a timer).  Every      *)
(* action below is one such run-to-suspension step of one call.            *)
(*                                                                         *)
(* Two specifications share the definitions:                               *)
(*   Spec       the running server, tool calls overlapping at their awaits *)
(*   SpecLogin  AuthManager.authenticate(): the saved-credential attempt   *)
(*              and the full handshake with its poll loop                  *)
(***************************************************************************)
EXTENDS Integers, Sequences, FiniteSets, TLC

VARIABLES
    phase,        \* "constructed" | "running" | "exited"
    apiUrl,       \* process.env.JAUMEMORY_API_URL is set
    now,          \* Date.now(), milliseconds
    credentials,  \* AuthManager.credentials
    cacheFile,    \* content of .auth-cache/credentials.json
    tasks,        \* the calls in progress, one record per slot
    calls,        \* calls started so far
    lastDone,     \* "logout:ok" when the call that completed last is a logout that succeeded
    env,          \* the other environment variables AuthManager reads
    cleared,      \* a clearSession has returned leaving no Credential, and no
                  \* login has completed since
    lastSaved     \* this.credentials as it was when the record now in the cache
                  \* file was written by saveCachedCredentials

vars == <<phase, apiUrl, now, credentials, cacheFile, tasks, calls, lastDone, env,
          cleared, lastSaved>>

---------------------------------------------------------------------------
(* Bounds of the model *)

MaxTasks == 2
MaxCalls == 3
MaxTicks == 2

Tasks == 1..MaxTasks

---------------------------------------------------------------------------
(* Values *)

\* JavaScript's undefined, for a string-valued field
Undef == "<undefined>"
\* a missing numeric field: arithmetic on it gives NaN
UndefNum == -1

Minute == 60 * 1000
\* Refresh 5 minutes before expiry
bufferTime == 5 * 60 * 1000

ReqIds == {"r1"}
\* what a human may type as the authentication code
Codes == {"happy-star", "Happy-Star"}
\* AuthResponse bodies the service may return (expires_in in seconds)
AuthResponses ==
    { [access_token |-> "jwtA", expires_in |-> 240],
      [access_token |-> "jwtB", expires_in |-> 360] }

\* the code the service issued for an approved request (shown in the browser)
IssuedCode(r) == "happy-star"
\* the principal the service authenticates for a request
UserOf(r) == "u1"

\* createHash('sha256').update(requestId).update(authToken).digest('hex'):
\* a digest of the concatenation of the two strings
Sha256Hex(r, a) == "sha256:" \o r \o a

\* the service accepts a sync_id iff it is the digest of a request and its code
ServiceAccepts(sync) == \E r \in ReqIds : sync = Sha256Hex(r, IssuedCode(r))

---------------------------------------------------------------------------
(* AuthCredentials *)

NoCred == [present |-> FALSE, requestId |-> Undef, authToken |-> Undef,
           userId |-> Undef, jwtToken |-> Undef, jwtExpiry |-> UndefNum,
           syncId |-> Undef]

Cred(r, a, u, j, e, s) ==
    [present |-> TRUE, requestId |-> r, authToken |-> a, userId |-> u,
     jwtToken |-> j, jwtExpiry |-> e, syncId |-> s]

\* all six persisted fields populated
Complete(c) ==
    /\ c.present
    /\ c.requestId # Undef /\ c.authToken # Undef /\ c.userId # Undef
    /\ c.jwtToken # Undef /\ c.syncId # Undef /\ c.jwtExpiry # UndefNum

\* objects a JSON file can hold that are not a whole AuthCredentials
PartialCreds ==
    { Cred(Undef, Undef, "u1", Undef, UndefNum, Undef),
      Cred(Undef, Undef, "u1", "jwtA", 0, Undef) }

---------------------------------------------------------------------------
(* The cache file: text on disk *)

AbsentFile == [kind |-> "absent", val |-> NoCred]
CorruptFile == [kind |-> "corrupt", val |-> NoCred]

CredKeys == {"requestId", "authToken", "userId", "jwtToken", "jwtExpiry", "syncId"}

\* the properties of the object that have a value: JSON.stringify leaves out
\* a property whose value is undefined
DefinedKeys(c) ==
    {k \in CredKeys : c[k] # (IF k = "jwtExpiry" THEN UndefNum ELSE Undef)}

\* (variant: the one-time code is kept out of the file)
JsonStringifyRedacted(c) ==
    [kind |-> "json", val |-> [k \in DefinedKeys(c) \ {"authToken"} |-> c[k]]]

\* JSON.stringify(this.credentials, null, 2): the text of an object with the
\* defined properties, each string quoted and the number in decimal
JsonStringify(c) == [kind |-> "json", val |-> [k \in DefinedKeys(c) |-> c[k]]]

\* fs.readFile + JSON.parse: throws on a missing file, on one that cannot be
\* read and on text that is no JSON
ReadParses(f) == f.kind = "json"
\* the object JSON.parse builds: a property the text does not name is undefined
JsonParse(f) ==
    [present |-> TRUE,
     requestId |-> IF "requestId" \in DOMAIN f.val THEN f.val.requestId ELSE Undef,
     authToken |-> IF "authToken" \in DOMAIN f.val THEN f.val.authToken ELSE Undef,
     userId |-> IF "userId" \in DOMAIN f.val THEN f.val.userId ELSE Undef,
     jwtToken |-> IF "jwtToken" \in DOMAIN f.val THEN f.val.jwtToken ELSE Undef,
     jwtExpiry |-> IF "jwtExpiry" \in DOMAIN f.val THEN f.val.jwtExpiry ELSE UndefNum,
     syncId |-> IF "syncId" \in DOMAIN f.val THEN f.val.syncId ELSE Undef]

StartFiles ==
    {AbsentFile, CorruptFile}
      \cup {JsonStringify(c) : c \in PartialCreds}
      \cup {JsonStringify(Cred("r1", "happy-star", "u1", "jwtA", 6 * Minute,
                               Sha256Hex("r1", "happy-star")))}

---------------------------------------------------------------------------
(* Calls *)

NoHdr == [authorization |-> Undef, xSyncId |-> Undef, xUserId |-> Undef]

\* the JSON body of a request: the properties it can have, Undef when it
\* does not have them
BodyKeys == {"date_nonce", "connection_name", "request_hash", "request_id",
             "sync_id", "username", "email"}
NoBody == [k \in BodyKeys |-> Undef]

IdleTask ==
    [op |-> "idle", pc |-> "idle",
     req |-> Undef, tok |-> Undef,       \* arguments of authenticateWithToken
     sync |-> Undef,                     \* sync_id of the request in flight
     data |-> AbsentFile,                \* text handed to fs.writeFile
     saved |-> NoCred,                   \* this.credentials when that text was made
     res |-> "none",                     \* "ok" or the error thrown
     diag |-> Undef,                     \* response.data.detail of the request that failed
     msg |-> Undef,                      \* message of the Error a failed request ends in
     hdr |-> NoHdr, user |-> Undef,      \* value returned
     wire |-> NoBody,                    \* body of the request in flight
     uname |-> Undef,                    \* login(username, email), while in flight
     nLogin |-> 0, nCheck |-> 0, nExch |-> 0, nLogout |-> 0,  \* requests sent
     via |-> "none",                     \* authenticate(): "saved" | "handshake"
     nonce |-> Undef, key |-> Undef,     \* date_nonce and requestKey of the handshake
     gotToken |-> FALSE,                 \* a status response carried the encrypted token
     i |-> 0, waits |-> 0,               \* poll loop counter, timers waited
     sawApproved |-> FALSE,              \* a status response said approved
     decOk |-> FALSE, dec |-> Undef,     \* outcome of decryptAuthToken
     had |-> "none",                     \* Credential at the call: "none" | "partial" | "whole"
     inSkew |-> FALSE,                   \* whole, and the call fell inside its skew
     afterLogout |-> FALSE,              \* the call follows a logout that succeeded
     nHandler |-> 0, nRefresh |-> 0,     \* tool call: handler invocations, refreshToken calls
     err |-> Undef]                      \* tool call: message of the first invocation's error

NewTask(t, op) ==
    [IdleTask EXCEPT
       !.op = op,
       !.had = IF ~credentials.present THEN "none"
               ELSE IF Complete(credentials) THEN "whole" ELSE "partial",
       !.inSkew = Complete(credentials) /\ now + 5 * Minute >= credentials.jwtExpiry,
       !.afterLogout = lastDone = "logout:ok" /\ \A u \in Tasks : tasks[u].op = "idle"]

\* a call may start in the lowest free slot of the running server
CanStart(t) ==
    /\ phase = "running"
    /\ calls < MaxCalls
    /\ tasks[t].op = "idle"
    /\ \A u \in Tasks : u < t => tasks[u].op # "idle"

Done(tk, res) ==
    [tk EXCEPT !.pc = "done", !.res = res, !.wire = NoBody, !.uname = Undef]

---------------------------------------------------------------------------
(* Error messages *)

\* the diagnostic a rejecting service puts in the detail property of its
\* response body
Details == {"Invalid or expired request"}
\* what a failed request carries: no response at all, or one with a detail
ErrorBodies == {Undef} \cup Details
\* error.message of an AxiosError without a response
AxiosMessage == "Network Error"

\* login / performMcpLogin: error.response?.data?.detail || error.message
loginErrorMessage(d) ==
    "MCP login failed: " \o (IF d # Undef THEN d ELSE AxiosMessage)

\* authenticateWithToken's catch: data.detail when there is a response body,
\* else error.message
exchangeErrorMessage(d) ==
    "Authentication failed: " \o (IF d # Undef THEN d ELSE AxiosMessage)

\* refreshToken's catch logs the error and throws a new one with a fixed text
refreshErrorMessage == "Token refresh failed. Please re-authenticate."

\* createHash().update(undefined) throws this TypeError
hashArgumentMessage == "The \"data\" argument must be of type string"

---------------------------------------------------------------------------
(* AuthManager *)

\* getUserId: this.credentials?.userId || null
getUserId(c) == IF c.present /\ c.userId # Undef /\ c.userId # "" THEN c.userId
                ELSE Undef

\* (variant: the skew boundary itself does not count as expired)
isTokenExpiredStrict(c, t) ==
    IF ~c.present THEN TRUE
    ELSE IF c.jwtExpiry = UndefNum THEN FALSE
    ELSE t > c.jwtExpiry - bufferTime

\* isTokenExpired: a comparison with NaN is false
isTokenExpired(c, t) ==
    IF ~c.present THEN TRUE
    ELSE IF c.jwtExpiry = UndefNum THEN FALSE
    ELSE t >= c.jwtExpiry - bufferTime

\* the headers getAuthHeaders builds from this.credentials
HeadersOf(c) ==
    [authorization |-> "Bearer " \o (IF c.jwtToken = Undef THEN "undefined"
                                     ELSE c.jwtToken),
     xSyncId |-> c.syncId, xUserId |-> c.userId]

---------------------------------------------------------------------------
(* The handshake's cryptography *)

connectionName == "JauMemory MCP Server"
\* new Date().toISOString()
DateNonce(t) == ToString(t)

\* the first 32 bytes of SHA-512(username:email:connectionName:dateNonce)
deriveRequestKey(u, e, c, n) == "sha512/32:" \o u \o ":" \o e \o ":" \o c \o ":" \o n

\* the account the approving human is logged in to
AccountUser == "alice"
EmailOf(u) == u \o "@example.com"
ServiceKey(n) == deriveRequestKey(AccountUser, EmailOf(AccountUser), connectionName, n)

\* request_hash: SHA-512 hex of username:email:dateNonce:connectionName
RequestHash(u, e, n, c) == "sha512:" \o u \o ":" \o e \o ":" \o n \o ":" \o c

\* (variant: the login request names the user)
LoginBodyWithUser(u, n) ==
    [k \in BodyKeys |->
       CASE k = "date_nonce" -> n
         [] k = "connection_name" -> connectionName
         [] k = "request_hash" -> RequestHash(u, EmailOf(u), n, connectionName)
         [] k = "username" -> u
         [] OTHER -> Undef]

\* the body of POST /v1/auth/mcp/login
LoginBody(u, n) ==
    [k \in BodyKeys |->
       CASE k = "date_nonce" -> n
         [] k = "connection_name" -> connectionName
         [] k = "request_hash" -> RequestHash(u, EmailOf(u), n, connectionName)
         [] OTHER -> Undef]

\* the body of POST /v1/auth/mcp/check
CheckBody(r) == [k \in BodyKeys |-> IF k = "request_id" THEN r ELSE Undef]

\* the body of POST /v1/auth/mcp/authenticate
ExchangeBody(sync) == [k \in BodyKeys |-> IF k = "sync_id" THEN sync ELSE Undef]

\* plaintexts as bytes; <FF> is a byte sequence that is no UTF-8
Plains == {"happy-star", "Happy-Star", "<FF>"}
\* Buffer.toString('utf8'): an invalid sequence decodes to U+FFFD
Utf8Decode(p) == IF p = "<FF>" THEN "<U+FFFD>" ELSE p

\* nonce || ciphertext || tag, base64: AES-256-GCM of plain under key, the
\* tag intact or not (any bit of nonce, ciphertext or tag changed)
EncTokens(n) ==
    [key : {ServiceKey(n), "sha512/32:other"}, plain : Plains, tagOk : BOOLEAN]

\* decryptAuthToken: decipher.final() throws unless key and tag fit
decryptAuthToken(enc, key) ==
    IF enc.key = key /\ enc.tagOk
    THEN [ok |-> TRUE, value |-> Utf8Decode(enc.plain)]
    ELSE [ok |-> FALSE, value |-> Undef]

---------------------------------------------------------------------------
(* authenticateWithToken and saveCachedCredentials, step by step *)

\* promptForCredentials: both JAUMEMORY_USERNAME and JAUMEMORY_EMAIL
promptForCredentials == env.username # Undef

\* performMcpLogin up to its await of the login request
performMcpLogin(tk) ==
    IF ~apiUrl THEN Done(tk, "ApiUrlRequired")
    ELSE IF ~promptForCredentials THEN Done(tk, "CredentialsRequired")
    ELSE [tk EXCEPT !.via = "handshake", !.pc = "loginPost", !.nLogin = @ + 1,
                    !.wire = LoginBody(env.username, DateNonce(now)),
                    !.nonce = DateNonce(now),
                    !.key = deriveRequestKey(env.username, EmailOf(env.username),
                                             connectionName, DateNonce(now))]

\* (variant: a failed refresh is swallowed and the stale headers served)
AwtThrewSwallowed(tk) ==
    CASE tk.op = "completeAuthentication" -> Done(tk, "AuthenticationFailed")
      [] tk.op = "getAuthHeaders" ->
           Done([tk EXCEPT !.hdr = HeadersOf(credentials)], "ok")
      [] tk.op = "logout" ->
           Done([tk EXCEPT !.msg = refreshErrorMessage], "RefreshFailed")
      [] tk.op = "authenticate" /\ tk.via = "saved" ->
           performMcpLogin([tk EXCEPT !.diag = Undef, !.msg = Undef])
      [] OTHER -> Done(tk, "AuthenticationFailed")

\* (variant: authenticate() lets the error of the saved attempt through)
AwtThrewPropagates(tk) ==
    CASE tk.op = "completeAuthentication" -> Done(tk, "AuthenticationFailed")
      [] tk.op \in {"getAuthHeaders", "logout", "tool"} ->
           Done([tk EXCEPT !.msg = refreshErrorMessage], "RefreshFailed")
      [] OTHER -> Done(tk, "AuthenticationFailed")

\* authenticateWithToken threw (tk.msg is the message of its error): what
\* the caller makes of it.  completeAuthentication and performMcpLogin let the
\* error through, refreshToken replaces it, authenticate() drops it
AwtThrew(tk) ==
    CASE tk.op = "completeAuthentication" -> Done(tk, "AuthenticationFailed")
      [] tk.op \in {"getAuthHeaders", "logout", "tool"} ->
           Done([tk EXCEPT !.msg = refreshErrorMessage], "RefreshFailed")
      [] tk.op = "authenticate" /\ tk.via = "saved" ->
           performMcpLogin([tk EXCEPT !.diag = Undef, !.msg = Undef])
      [] OTHER -> Done(tk, "AuthenticationFailed")

\* (variant: the digest is taken of the code followed by the request id)
authenticateWithTokenSwapped(tk, r, a) ==
    IF r = Undef \/ a = Undef THEN AwtThrew([tk EXCEPT !.msg = hashArgumentMessage])
    ELSE [tk EXCEPT !.req = r, !.tok = a, !.sync = Sha256Hex(a, r),
                    !.wire = ExchangeBody(Sha256Hex(a, r)),
                    !.pc = "post", !.nExch = @ + 1]

\* authenticateWithToken up to its await of axios.post: the digest of an
\* undefined argument throws before any request is made
authenticateWithToken(tk, r, a) ==
    IF r = Undef \/ a = Undef THEN AwtThrew([tk EXCEPT !.msg = hashArgumentMessage])
    ELSE [tk EXCEPT !.req = r, !.tok = a, !.sync = Sha256Hex(r, a),
                    !.wire = ExchangeBody(Sha256Hex(r, a)),
                    !.pc = "post", !.nExch = @ + 1]

\* (variant: a refresh starts the handshake over)
refreshTokenRehandshake(tk, c) == performMcpLogin(tk)

\* refreshToken, entered with credentials present
refreshToken(tk, c) == authenticateWithToken(tk, c.requestId, c.authToken)

\* the caller's continuation once authenticateWithToken has returned, reading
\* this.credentials as it is then
\* getAuthHeaders builds its result from this.credentials as it is then
\* (reading a field of undefined throws); the logout tool goes on to post
ReturnHeaders(tk, c) ==
    IF ~c.present THEN Done(tk, "TypeError")
    ELSE IF tk.op = "logout"
         THEN [tk EXCEPT !.hdr = HeadersOf(c), !.pc = "logoutPost",
                         !.wire = NoBody, !.nLogout = @ + 1]
         ELSE Done([tk EXCEPT !.hdr = HeadersOf(c)], "ok")

\* tool.handler(args) up to its await
toolHandler(tk) == [tk EXCEPT !.pc = "handler", !.nHandler = @ + 1]

AwtReturned(tk, c) ==
    CASE tk.op = "completeAuthentication" ->
           Done([tk EXCEPT !.user = getUserId(c)], "ok")
      [] tk.op = "authenticate" -> Done(tk, "ok")
      [] tk.op = "tool" -> toolHandler(tk)
      [] OTHER -> ReturnHeaders(tk, c)

\* saveCachedCredentials has returned (it never throws)
AfterSave(tk, c) ==
    LET u == [tk EXCEPT !.data = AbsentFile, !.saved = NoCred]
    IN  IF u.op = "cleanup" THEN Done(u, "ok") ELSE AwtReturned(u, c)

\* saveCachedCredentials up to its await of fs.mkdir
saveCachedCredentials(tk, c) ==
    IF ~c.present THEN AfterSave(tk, c) ELSE [tk EXCEPT !.pc = "mkdir", !.wire = NoBody]

\* (variant: the guard on this.credentials is missing, and refreshToken's own
\* guard throws instead)
getAuthHeadersNoGuard(tk, c, t) ==
    IF isTokenExpired(c, t)
    THEN IF ~c.present THEN Done(tk, "NoCredentialsToRefresh") ELSE refreshToken(tk, c)
    ELSE ReturnHeaders(tk, c)

\* getAuthHeaders up to its first await
getAuthHeaders(tk, c, t) ==
    IF ~c.present THEN Done(tk, "NotAuthenticated")
    ELSE IF isTokenExpired(c, t) THEN refreshToken(tk, c)
    ELSE ReturnHeaders(tk, c)

Track(t) ==
    lastDone' = IF tasks'[t].pc # "done" THEN lastDone
                ELSE IF tasks'[t].op = "logout" /\ tasks'[t].res = "ok" THEN "logout:ok"
                ELSE "other"

\* the process exits once cleanup has returned (SIGINT handler)
Exits(t) ==
    phase' = IF tasks'[t].op = "cleanup" /\ tasks'[t].pc = "done"
             THEN "exited" ELSE phase

Running == phase = "running"

\* the exchange response arrives with bearer material: the Credential is
\* assigned, then saved
ExchangeOk(t) ==
    /\ Running /\ tasks[t].pc = "post"
    /\ apiUrl /\ ServiceAccepts(tasks[t].sync)
    /\ \E d \in AuthResponses :
         /\ credentials' = Cred(tasks[t].req, tasks[t].tok, UserOf(tasks[t].req),
                                d.access_token, now + d.expires_in * 1000,
                                tasks[t].sync)
         /\ tasks' = [tasks EXCEPT ![t] = saveCachedCredentials(@, credentials')]
    /\ Track(t)
    /\ UNCHANGED <<phase, apiUrl, now, cacheFile, calls, env, lastSaved>>
    /\ cleared' = IF tasks[t].op \in {"completeAuthentication", "authenticate"} THEN FALSE ELSE cleared

\* (variant: a failed exchange drops the session)
ExchangeFailClears(t) ==
    /\ Running /\ tasks[t].pc = "post"
    /\ \E d \in ErrorBodies :
         tasks' = [tasks EXCEPT ![t] =
                     AwtThrew([@ EXCEPT !.diag = d, !.msg = exchangeErrorMessage(d)])]
    /\ credentials' = NoCred
    /\ Track(t)
    /\ UNCHANGED <<phase, apiUrl, now, cacheFile, calls, env, cleared, lastSaved>>

\* the exchange request is rejected or fails
ExchangeFail(t) ==
    /\ Running /\ tasks[t].pc = "post"
    /\ \E d \in ErrorBodies :
         tasks' = [tasks EXCEPT ![t] =
                     AwtThrew([@ EXCEPT !.diag = d, !.msg = exchangeErrorMessage(d)])]
    /\ Track(t)
    /\ UNCHANGED <<phase, apiUrl, now, credentials, cacheFile, calls, env, cleared, lastSaved>>

\* fs.mkdir returned: the text of this.credentials, as it is now, goes to
\* fs.writeFile; with no credentials left, writeFile rejects its argument
MkdirOk(t) ==
    /\ Running /\ tasks[t].pc = "mkdir"
    /\ tasks' = [tasks EXCEPT ![t] =
                   IF credentials.present
                   THEN [@ EXCEPT !.pc = "write", !.data = JsonStringify(credentials),
                                  !.saved = credentials]
                   ELSE AfterSave(@, credentials)]
    /\ Track(t) /\ Exits(t)
    /\ UNCHANGED <<apiUrl, now, credentials, cacheFile, calls, env, cleared, lastSaved>>

MkdirFail(t) ==
    /\ Running /\ tasks[t].pc = "mkdir"
    /\ tasks' = [tasks EXCEPT ![t] = AfterSave(@, credentials)]
    /\ Track(t) /\ Exits(t)
    /\ UNCHANGED <<apiUrl, now, credentials, cacheFile, calls, env, cleared, lastSaved>>

WriteOk(t) ==
    /\ Running /\ tasks[t].pc = "write"
    /\ cacheFile' = tasks[t].data
    /\ lastSaved' = tasks[t].saved
    /\ tasks' = [tasks EXCEPT ![t] = AfterSave(@, credentials)]
    /\ Track(t) /\ Exits(t)
    /\ UNCHANGED <<apiUrl, now, credentials, calls, env, cleared>>

\* (variant: the error of fs.writeFile is not caught)
WriteFailThrows(t) ==
    /\ Running /\ tasks[t].pc = "write"
    /\ tasks' = [tasks EXCEPT ![t] =
                   Done([@ EXCEPT !.data = AbsentFile, !.saved = NoCred], "SaveFailed")]
    /\ Track(t) /\ Exits(t)
    /\ UNCHANGED <<apiUrl, now, credentials, cacheFile, calls, env, cleared, lastSaved>>

\* fs.writeFile failed: logged, and saveCachedCredentials returns
WriteFail(t) ==
    /\ Running /\ tasks[t].pc = "write"
    /\ tasks' = [tasks EXCEPT ![t] = AfterSave(@, credentials)]
    /\ Track(t) /\ Exits(t)
    /\ UNCHANGED <<apiUrl, now, credentials, cacheFile, calls, env, cleared, lastSaved>>

---------------------------------------------------------------------------
(* The calls a client of the server can make *)

\* mcp_authenticate: completeAuthentication(request_id, auth_token), then
\* getUserId
CallCompleteAuthentication(t) ==
    /\ CanStart(t)
    /\ \E r \in ReqIds, a \in Codes :
         tasks' = [tasks EXCEPT ![t] =
                     authenticateWithToken(NewTask(t, "completeAuthentication"), r, a)]
    /\ calls' = calls + 1
    /\ Track(t)
    /\ UNCHANGED <<phase, apiUrl, now, credentials, cacheFile, env, cleared, lastSaved>>

\* a backend client asks for the authorization headers
CallGetAuthHeaders(t) ==
    /\ CanStart(t)
    /\ tasks' = [tasks EXCEPT ![t] =
                   getAuthHeaders(NewTask(t, "getAuthHeaders"), credentials, now)]
    /\ calls' = calls + 1
    /\ Track(t)
    /\ UNCHANGED <<phase, apiUrl, now, credentials, cacheFile, env, cleared, lastSaved>>

\* (variant: getUserId refreshes a token that is about to expire)
CallGetCurrentUserIdRefreshing(t) ==
    /\ CanStart(t)
    /\ tasks' = [tasks EXCEPT ![t] =
                   getAuthHeaders(NewTask(t, "getCurrentUserId"), credentials, now)]
    /\ calls' = calls + 1
    /\ Track(t)
    /\ UNCHANGED <<phase, apiUrl, now, credentials, cacheFile, env, cleared, lastSaved>>

\* clients.auth.getCurrentUserId: getUserId, absent is an error
CallGetCurrentUserId(t) ==
    /\ CanStart(t)
    /\ tasks' = [tasks EXCEPT ![t] =
                   Done([NewTask(t, "getCurrentUserId") EXCEPT
                            !.user = getUserId(credentials)],
                        IF getUserId(credentials) = Undef
                        THEN "NotAuthenticated" ELSE "ok")]
    /\ calls' = calls + 1
    /\ Track(t)
    /\ UNCHANGED <<phase, apiUrl, now, credentials, cacheFile, env, cleared, lastSaved>>

\* clearSession up to its await of fs.unlink
clearSession(tk) == [tk EXCEPT !.pc = "unlink"]

CallClearSession(t) ==
    /\ CanStart(t)
    /\ credentials' = NoCred
    /\ tasks' = [tasks EXCEPT ![t] = clearSession(NewTask(t, "clearSession"))]
    /\ calls' = calls + 1
    /\ Track(t)
    /\ UNCHANGED <<phase, apiUrl, now, cacheFile, env, cleared, lastSaved>>

UnlinkOk(t) ==
    /\ Running /\ tasks[t].pc = "unlink"
    /\ cacheFile.kind # "absent"
    /\ cacheFile' = AbsentFile
    /\ lastSaved' = NoCred
    /\ tasks' = [tasks EXCEPT ![t] = Done(@, "ok")]
    /\ Track(t)
    /\ UNCHANGED <<phase, apiUrl, now, credentials, calls, env>>
    /\ cleared' = ~credentials.present

\* (variant: the error of fs.unlink is not caught)
UnlinkFailThrows(t) ==
    /\ Running /\ tasks[t].pc = "unlink"
    /\ tasks' = [tasks EXCEPT ![t] = Done(@, "UnlinkFailed")]
    /\ Track(t)
    /\ UNCHANGED <<phase, apiUrl, now, credentials, cacheFile, calls, env, lastSaved>>
    /\ cleared' = ~credentials.present

\* the file is not there, or cannot be removed: swallowed
UnlinkFail(t) ==
    /\ Running /\ tasks[t].pc = "unlink"
    /\ tasks' = [tasks EXCEPT ![t] = Done(@, "ok")]
    /\ Track(t)
    /\ UNCHANGED <<phase, apiUrl, now, credentials, cacheFile, calls, env, lastSaved>>
    /\ cleared' = ~credentials.present

\* (variant: with no session there is nothing to do, and logout succeeds)
logoutHandlerLenient(tk, c, t) ==
    IF ~apiUrl THEN Done(tk, "ApiUrlRequired")
    ELSE IF ~c.present THEN Done(tk, "ok")
    ELSE getAuthHeaders(tk, c, t)

\* mcp_logout up to its first await
logoutHandler(tk, c, t) ==
    IF ~apiUrl THEN Done(tk, "ApiUrlRequired") ELSE getAuthHeaders(tk, c, t)

CallLogout(t) ==
    /\ CanStart(t)
    /\ tasks' = [tasks EXCEPT ![t] =
                   logoutHandler(NewTask(t, "logout"), credentials, now)]
    /\ calls' = calls + 1
    /\ Track(t)
    /\ UNCHANGED <<phase, apiUrl, now, credentials, cacheFile, env, cleared, lastSaved>>

\* the remote logout succeeded: clearSession
LogoutOk(t) ==
    /\ Running /\ tasks[t].pc = "logoutPost"
    /\ credentials' = NoCred
    /\ tasks' = [tasks EXCEPT ![t] = clearSession(@)]
    /\ Track(t)
    /\ UNCHANGED <<phase, apiUrl, now, cacheFile, calls, env, cleared, lastSaved>>

\* (variant: the local session is cleared whatever the service answered)
LogoutFailClears(t) ==
    /\ Running /\ tasks[t].pc = "logoutPost"
    /\ credentials' = NoCred
    /\ tasks' = [tasks EXCEPT ![t] = Done(@, "LogoutFailed")]
    /\ Track(t)
    /\ UNCHANGED <<phase, apiUrl, now, cacheFile, calls, env, cleared, lastSaved>>

\* the remote logout request is rejected or fails: the handler rethrows
LogoutFail(t) ==
    /\ Running /\ tasks[t].pc = "logoutPost"
    /\ tasks' = [tasks EXCEPT ![t] = Done(@, "LogoutFailed")]
    /\ Track(t)
    /\ UNCHANGED <<phase, apiUrl, now, credentials, cacheFile, calls, env, cleared, lastSaved>>

\* the usernames a caller of mcp_login may give
Usernames == {"alice", "bob"}

\* AuthManager.login(username, email) up to its await of axios.post
login(tk, u, t) ==
    IF ~apiUrl THEN Done(tk, "ApiUrlRequired")
    ELSE [tk EXCEPT !.pc = "loginPost", !.nLogin = @ + 1, !.uname = u,
                    !.wire = LoginBody(u, DateNonce(t))]

CallLogin(t) ==
    /\ CanStart(t)
    /\ \E u \in Usernames :
         tasks' = [tasks EXCEPT ![t] = login(NewTask(t, "login"), u, now)]
    /\ calls' = calls + 1
    /\ Track(t)
    /\ UNCHANGED <<phase, apiUrl, now, credentials, cacheFile, env, cleared, lastSaved>>

LoginOk(t) ==
    /\ Running /\ tasks[t].op = "login" /\ tasks[t].pc = "loginPost"
    /\ \E r \in ReqIds : tasks' = [tasks EXCEPT ![t] = Done([@ EXCEPT !.req = r], "ok")]
    /\ Track(t)
    /\ UNCHANGED <<phase, apiUrl, now, credentials, cacheFile, calls, env, cleared, lastSaved>>

LoginFail(t) ==
    /\ Running /\ tasks[t].op = "login" /\ tasks[t].pc = "loginPost"
    /\ \E d \in ErrorBodies :
         tasks' = [tasks EXCEPT ![t] =
                     Done([@ EXCEPT !.diag = d, !.msg = loginErrorMessage(d)],
                          "LoginFailed")]
    /\ Track(t)
    /\ UNCHANGED <<phase, apiUrl, now, credentials, cacheFile, calls, env, cleared, lastSaved>>

\* SIGINT: cleanup saves the credentials, then the process exits
CallCleanup(t) ==
    /\ CanStart(t)
    /\ tasks' = [tasks EXCEPT ![t] =
                   saveCachedCredentials(NewTask(t, "cleanup"), credentials)]
    /\ calls' = calls + 1
    /\ Track(t) /\ Exits(t)
    /\ UNCHANGED <<apiUrl, now, credentials, cacheFile, env, cleared, lastSaved>>

\* the result has been delivered to the caller
Return(t) ==
    /\ Running /\ tasks[t].pc = "done"
    /\ tasks' = [tasks EXCEPT ![t] = IdleTask]
    /\ UNCHANGED <<phase, apiUrl, now, credentials, cacheFile, calls, lastDone, env, cleared, lastSaved>>

---------------------------------------------------------------------------
(* Startup and the clock *)

\* (variant: a file that cannot be read leaves an empty object)
loadCachedCredentialsEmptyObject(c, f) ==
    IF ReadParses(f) THEN JsonParse(f)
    ELSE Cred(Undef, Undef, Undef, Undef, UndefNum, Undef)

\* loadCachedCredentials: whatever JSON.parse yields becomes this.credentials;
\* an error of readFile or of JSON.parse is caught and nothing is assigned
loadCachedCredentials(c, f) == IF ReadParses(f) THEN JsonParse(f) ELSE c

\* initialize(), awaited by main() before any tool is served
Initialize ==
    /\ phase = "constructed"
    /\ credentials' = loadCachedCredentials(credentials, cacheFile)
    /\ phase' = "running"
    /\ UNCHANGED <<apiUrl, now, cacheFile, tasks, calls, lastDone, env, cleared, lastSaved>>

\* the process ends (cleanup has exited it, or it is killed) and is started
\* again: the constructor leaves credentials undefined; the cache file stays
Restart ==
    /\ phase \in {"running", "exited"}
    /\ phase' = "constructed"
    /\ credentials' = NoCred
    /\ tasks' = [t \in Tasks |-> IdleTask]
    /\ lastDone' = "none"
    /\ cleared' = FALSE
    /\ UNCHANGED <<apiUrl, now, cacheFile, calls, env, lastSaved>>

Tick ==
    /\ Running
    /\ now < MaxTicks * Minute
    /\ now' = now + Minute
    /\ UNCHANGED <<phase, apiUrl, credentials, cacheFile, tasks, calls, lastDone, env, cleared, lastSaved>>

\* JAUMEMORY_USERNAME (with JAUMEMORY_EMAIL), JAUMEMORY_AUTH_TOKEN_MANUAL,
\* JAUMEMORY_REQUEST_ID, JAUMEMORY_AUTH_TOKEN
NoEnv == [username |-> Undef, manual |-> Undef, savedReq |-> Undef, savedTok |-> Undef]

Init ==
    /\ phase = "constructed"
    /\ apiUrl \in BOOLEAN
    /\ now = 0
    /\ credentials = NoCred
    /\ cacheFile \in StartFiles
    /\ tasks = [t \in Tasks |-> IdleTask]
    /\ calls = 0
    /\ lastDone = "none"
    /\ env = NoEnv
    /\ cleared = FALSE
    /\ lastSaved = NoCred

Next ==
    \/ Initialize
    \/ Restart
    \/ Tick
    \/ \E t \in Tasks :
         \/ CallLogin(t) \/ LoginOk(t) \/ LoginFail(t)
         \/ CallCompleteAuthentication(t)
         \/ CallGetAuthHeaders(t)
         \/ CallGetCurrentUserId(t)
         \/ CallClearSession(t) \/ UnlinkOk(t) \/ UnlinkFail(t)
         \/ CallLogout(t) \/ LogoutOk(t) \/ LogoutFail(t)
         \/ CallCleanup(t)
         \/ ExchangeOk(t) \/ ExchangeFail(t)
         \/ MkdirOk(t) \/ MkdirFail(t)
         \/ WriteOk(t) \/ WriteFail(t)
         \/ Return(t)

Spec == Init /\ [][Next]_vars

---------------------------------------------------------------------------
(* AuthManager.authenticate(): saved credentials, else the full handshake *)

maxAttempts == 60
pollInterval == 5000

Envs ==
    [username : {Undef, "alice", "bob"},
     manual : {Undef, "happy-star", "Happy-Star", "<U+FFFD>"},
     savedReq : {Undef, "r1"},
     savedTok : {Undef, "happy-star", "Happy-Star"}]

authenticate(tk) ==
    IF env.savedReq # Undef /\ env.savedTok # Undef
    THEN authenticateWithToken([tk EXCEPT !.via = "saved"], env.savedReq, env.savedTok)
    ELSE performMcpLogin(tk)

CallAuthenticate(t) ==
    /\ CanStart(t) /\ calls = 0
    /\ tasks' = [tasks EXCEPT ![t] = authenticate(NewTask(t, "authenticate"))]
    /\ calls' = calls + 1
    /\ Track(t)
    /\ UNCHANGED <<phase, apiUrl, now, credentials, cacheFile, env, cleared, lastSaved>>

HsLoginOk(t) ==
    /\ Running /\ tasks[t].op = "authenticate" /\ tasks[t].pc = "loginPost"
    /\ \E r \in ReqIds :
         tasks' = [tasks EXCEPT ![t] = [@ EXCEPT !.req = r, !.pc = "pollWait", !.i = 0,
                                                 !.wire = NoBody]]
    /\ UNCHANGED <<phase, apiUrl, now, credentials, cacheFile, calls, lastDone, env, cleared, lastSaved>>

HsLoginFail(t) ==
    /\ Running /\ tasks[t].op = "authenticate" /\ tasks[t].pc = "loginPost"
    /\ \E d \in ErrorBodies :
         tasks' = [tasks EXCEPT ![t] =
                     Done([@ EXCEPT !.diag = d, !.msg = loginErrorMessage(d)],
                          "LoginFailed")]
    /\ Track(t)
    /\ UNCHANGED <<phase, apiUrl, now, credentials, cacheFile, calls, env, cleared, lastSaved>>

\* the 5-second timer fires and the status request is sent
PollTimer(t) ==
    /\ Running /\ tasks[t].pc = "pollWait"
    /\ now' = now + pollInterval
    /\ tasks' = [tasks EXCEPT ![t] =
                   [@ EXCEPT !.waits = @ + 1, !.nCheck = @ + 1, !.pc = "checkPost",
                             !.wire = CheckBody(tasks[t].req)]]
    /\ UNCHANGED <<phase, apiUrl, credentials, cacheFile, calls, lastDone, env, cleared, lastSaved>>

Lower(x) == IF x = "Happy-Star" THEN "happy-star" ELSE x
\* (variant: the comparison ignores case)
tokensMatchNoCase(decrypted, provided) == Lower(decrypted) = Lower(provided)

\* the tokens match: decryptedAuthToken !== userProvidedToken is false
tokensMatch(decrypted, provided) == decrypted = provided

\* after the loop has left with an encrypted token: decrypt, prompt
\* (JAUMEMORY_AUTH_TOKEN_MANUAL, else promptForAuthToken throws), compare,
\* then step 3
verifyAndFinalize(tk, enc) ==
    LET d == decryptAuthToken(enc, tk.key)
        u == [tk EXCEPT !.decOk = d.ok, !.dec = d.value]
    IN  IF ~d.ok THEN Done(u, "DecryptFailed")
        ELSE IF env.manual = Undef THEN Done(u, "ManualTokenRequired")
        ELSE IF ~tokensMatch(d.value, env.manual)
             THEN Done(u, "SecurityVerificationFailed")
        ELSE authenticateWithToken(u, u.req, env.manual)

\* (variant: an exhausted budget starts the handshake over)
nextAttemptRetries(tk) ==
    IF tk.i + 1 < maxAttempts
    THEN [tk EXCEPT !.i = @ + 1, !.pc = "pollWait", !.wire = NoBody]
    ELSE performMcpLogin(tk)

\* the end of one loop iteration that did not break; after the last one
\* performMcpLogin throws and authenticate() lets the error through
nextAttempt(tk) ==
    IF tk.i + 1 < maxAttempts
    THEN [tk EXCEPT !.i = @ + 1, !.pc = "pollWait", !.wire = NoBody]
    ELSE Done(tk, "ApprovalTimeout")

\* (variant: the loop does not break on approval)
CheckApprovedNoBreak(t) ==
    /\ Running /\ tasks[t].pc = "checkPost"
    /\ tasks' = [tasks EXCEPT ![t] =
                   nextAttempt([@ EXCEPT !.sawApproved = TRUE, !.gotToken = TRUE])]
    /\ Track(t)
    /\ UNCHANGED <<phase, apiUrl, now, credentials, cacheFile, calls, env, cleared, lastSaved>>

\* approved, with the encrypted token: break
CheckApproved(t) ==
    /\ Running /\ tasks[t].pc = "checkPost"
    /\ \E enc \in EncTokens(tasks[t].nonce) :
         tasks' = [tasks EXCEPT ![t] =
                     verifyAndFinalize([@ EXCEPT !.sawApproved = TRUE,
                                                 !.gotToken = TRUE], enc)]
    /\ Track(t)
    /\ UNCHANGED <<phase, apiUrl, now, credentials, cacheFile, calls, env, cleared, lastSaved>>

\* approved, but encrypted_auth_token is missing or empty: no break
CheckApprovedNoToken(t) ==
    /\ Running /\ tasks[t].pc = "checkPost"
    /\ tasks' = [tasks EXCEPT ![t] = nextAttempt([@ EXCEPT !.sawApproved = TRUE])]
    /\ Track(t)
    /\ UNCHANGED <<phase, apiUrl, now, credentials, cacheFile, calls, env, cleared, lastSaved>>

\* not approved yet
CheckPending(t) ==
    /\ Running /\ tasks[t].pc = "checkPost"
    /\ tasks' = [tasks EXCEPT ![t] = nextAttempt(@)]
    /\ Track(t)
    /\ UNCHANGED <<phase, apiUrl, now, credentials, cacheFile, calls, env, cleared, lastSaved>>

\* (variant: a failed status request ends the wait)
checkFailedAborts(tk) == Done(tk, "CheckFailed")

\* (variant: the catch of a failed status request waits for a retry signal
\* that nothing sends)
checkFailedHangs(tk) == [tk EXCEPT !.pc = "hung", !.wire = NoBody]

\* what the catch of a failed status request does: continue polling
checkFailed(tk) == nextAttempt(tk)

CheckFail(t) ==
    /\ Running /\ tasks[t].pc = "checkPost"
    /\ tasks' = [tasks EXCEPT ![t] = checkFailed(@)]
    /\ Track(t)
    /\ UNCHANGED <<phase, apiUrl, now, credentials, cacheFile, calls, env, cleared, lastSaved>>

InitLogin ==
    /\ phase = "constructed"
    /\ apiUrl \in BOOLEAN
    /\ now = 0
    /\ credentials = NoCred
    /\ cacheFile \in StartFiles
    /\ tasks = [t \in Tasks |-> IdleTask]
    /\ calls = 0
    /\ lastDone = "none"
    /\ env \in Envs
    /\ cleared = FALSE
    /\ lastSaved = NoCred

NextLogin ==
    \/ Initialize
    \/ CallLogin(1) \/ LoginOk(1) \/ LoginFail(1)
    \/ CallAuthenticate(1)
    \/ HsLoginOk(1) \/ HsLoginFail(1)
    \/ PollTimer(1)
    \/ CheckApproved(1) \/ CheckApprovedNoToken(1) \/ CheckPending(1) \/ CheckFail(1)
    \/ ExchangeOk(1) \/ ExchangeFail(1)
    \/ MkdirOk(1) \/ MkdirFail(1)
    \/ WriteOk(1) \/ WriteFail(1)

SpecLogin == InitLogin /\ [][NextLogin]_vars

\* every awaited request is answered or fails, every timer fires, every file
\* operation completes: the event loop then resumes the call
FairLogin ==
    /\ WF_vars(HsLoginOk(1) \/ HsLoginFail(1))
    /\ WF_vars(PollTimer(1))
    /\ WF_vars(CheckApproved(1) \/ CheckApprovedNoToken(1) \/ CheckPending(1)
                 \/ CheckFail(1))
    /\ WF_vars(ExchangeOk(1) \/ ExchangeFail(1))
    /\ WF_vars(MkdirOk(1) \/ MkdirFail(1))
    /\ WF_vars(WriteOk(1) \/ WriteFail(1))

SpecLoginFair == InitLogin /\ [][NextLogin]_vars /\ FairLogin

---------------------------------------------------------------------------
(* Properties *)

HandshakeTasks == {t \in Tasks : tasks[t].op = "authenticate" /\ tasks[t].via = "handshake"}
RefreshOps == {"getAuthHeaders", "logout"}
SavedConfigured == env.savedReq # Undef /\ env.savedTok # Undef
\* exchange requests sent by the handshake itself (not by the saved attempt)
HsExch(tk) == tk.nExch - (IF SavedConfigured THEN 1 ELSE 0)

\* C1: completeAuthentication(requestId, code) sends the exchange request and
\* creates a Credential only if code is the token the service issued for
\* requestId; with any other code it fails without sending the request.
C1_CompleteLoginVerifies ==
    \A t \in Tasks :
      (tasks[t].op = "completeAuthentication"
         /\ tasks[t].tok # IssuedCode(tasks[t].req))
      => /\ tasks[t].nExch = 0
         /\ tasks[t].pc = "done" => tasks[t].res # "ok"

C3_RefreshIffInSkew ==
    \A t \in Tasks :
      (tasks[t].op = "getAuthHeaders" /\ tasks[t].had = "whole")
      => /\ tasks[t].nExch = (IF tasks[t].inSkew THEN 1 ELSE 0)
         /\ tasks[t].nLogin = 0 /\ tasks[t].nCheck = 0 /\ tasks[t].nLogout = 0
         /\ tasks[t].pc # "done" => tasks[t].inSkew

C3_Witness ==
    \E t \in Tasks :
      /\ tasks[t].op = "getAuthHeaders" /\ tasks[t].had = "whole"
      /\ tasks[t].inSkew /\ tasks[t].pc = "done" /\ tasks[t].res = "ok"
      /\ tasks[t].nExch = 1

\* C4: once clearSession has returned, and until a login completes, a
\* getUserId call returns absent and a getAuthHeaders call throws
\* NotAuthenticated.
C4_NoUserAfterClear ==
    cleared =>
      /\ getUserId(credentials) = Undef
      /\ getAuthHeaders(IdleTask, credentials, now).res = "NotAuthenticated"

\* C5: a logout that directly follows a logout that succeeded does not raise
\* an error.
C5_LogoutTwice ==
    \A t \in Tasks :
      (tasks[t].op = "logout" /\ tasks[t].afterLogout /\ tasks[t].pc = "done")
      => tasks[t].res = "ok"

\* C5 (amended): a logout that directly follows a logout that succeeded, and
\* is called while no Credential is held, raises the not-authenticated error;
\* it sends no request.
C5_SecondLogoutNotAuthenticated ==
    \A t \in Tasks :
      (tasks[t].op = "logout" /\ tasks[t].afterLogout /\ tasks[t].had = "none"
         /\ apiUrl)
      => /\ tasks[t].pc = "done" /\ tasks[t].res = "NotAuthenticated"
         /\ tasks[t].nExch = 0 /\ tasks[t].nLogout = 0

C5_Witness ==
    \E t \in Tasks :
      /\ tasks[t].op = "logout" /\ tasks[t].afterLogout /\ tasks[t].had = "none"
      /\ tasks[t].res = "NotAuthenticated"

\* C6: the step in which the exchange of a refresh fails (the process still
\* running) ends the call with
\* the refresh-failed error and no headers, and leaves the Credential, the
\* cache file and so the answer of getUserId as they were.
C6_FailedRefreshKeepsCredential ==
    [][\A t \in Tasks :
         (tasks[t].op \in RefreshOps /\ tasks[t].pc = "post"
            /\ tasks'[t].pc \notin {"post", "mkdir", "idle"})
         => /\ tasks'[t].pc = "done" /\ tasks'[t].res = "RefreshFailed"
            /\ tasks'[t].hdr = NoHdr
            /\ credentials' = credentials /\ cacheFile' = cacheFile
            /\ getUserId(credentials') = getUserId(credentials)]_vars

C6_Witness ==
    \E t \in Tasks :
      /\ tasks[t].op = "getAuthHeaders" /\ tasks[t].res = "RefreshFailed"
      /\ tasks[t].nExch = 1 /\ Complete(credentials)

\* C7: in every state of the started process the Credential in memory and
\* the record in the cache file are each absent or have all six fields.
C7_AbsentOrWhole ==
    phase # "constructed" =>
      /\ credentials.present => Complete(credentials)
      /\ cacheFile.kind = "json" => Complete(JsonParse(cacheFile))

\* C8: at most one refresh exchange is in flight, and at most one refresh is
\* saving the Credential, at any time.
C8_OneRefreshAtATime ==
    /\ Cardinality({t \in Tasks : tasks[t].op \in RefreshOps
                                   /\ tasks[t].pc = "post"}) <= 1
    /\ Cardinality({t \in Tasks : tasks[t].op \in RefreshOps
                                   /\ tasks[t].pc \in {"mkdir", "write"}}) <= 1

\* C9: while no status response has said approved, every status request
\* follows one 5-second wait; the wait ends only after 60 status requests,
\* and then with the approval-timeout error, whatever the requests returned
\* (a failed request counts as an attempt).
C9_PollBudget ==
    \A t \in HandshakeTasks :
      ~tasks[t].sawApproved =>
        /\ tasks[t].nCheck <= maxAttempts
        /\ tasks[t].waits = tasks[t].nCheck
        /\ now = tasks[t].waits * pollInterval
        /\ (tasks[t].pc = "done" /\ tasks[t].nCheck > 0) =>
             (tasks[t].nCheck = maxAttempts /\ tasks[t].res = "ApprovalTimeout")
        /\ tasks[t].res = "ApprovalTimeout" => tasks[t].nCheck = maxAttempts
        /\ (tasks[t].nCheck = maxAttempts /\ tasks[t].pc # "checkPost") =>
             tasks[t].res = "ApprovalTimeout"

C9_Witness ==
    \E t \in HandshakeTasks :
      /\ ~tasks[t].sawApproved /\ tasks[t].res = "ApprovalTimeout"
      /\ tasks[t].nCheck = maxAttempts /\ now = maxAttempts * pollInterval

\* C10: once a status response with approved = true has been received, no
\* further status request is sent.
C10_StopsAtApproval ==
    [][\A t \in Tasks :
         tasks[t].sawApproved => tasks'[t].nCheck = tasks[t].nCheck]_vars

\* C10 (amended): once a status response with approved = true that carries
\* the encrypted token has been received, no further status request is sent.
C10_StopsAtApprovalWithToken ==
    [][\A t \in Tasks :
         tasks[t].gotToken => tasks'[t].nCheck = tasks[t].nCheck]_vars

C10_Witness ==
    \E t \in HandshakeTasks :
      tasks[t].gotToken /\ tasks[t].nCheck = 2 /\ tasks[t].pc = "done"

\* C11: an approval timeout is not retried: the status response that uses up
\* the budget without bringing the token ends the handshake with the timeout
\* error in that very step, the handshake having sent one login request, 60
\* status requests and no exchange request; from then on no request of any
\* kind is sent and the call's outcome stays as it is.
C11_TimeoutNotRetried ==
    /\ [](\A t \in HandshakeTasks :
            tasks[t].res = "ApprovalTimeout" =>
              /\ tasks[t].pc = "done"
              /\ tasks[t].nLogin = 1 /\ tasks[t].nCheck = maxAttempts
              /\ HsExch(tasks[t]) = 0 /\ tasks[t].nLogout = 0)
    /\ [][\A t \in Tasks :
            (tasks[t].pc = "checkPost" /\ tasks[t].i = maxAttempts - 1
               /\ ~tasks'[t].gotToken)
            => /\ tasks'[t].pc = "done" /\ tasks'[t].res = "ApprovalTimeout"
               /\ tasks'[t].nLogin = tasks[t].nLogin
               /\ tasks'[t].nCheck = tasks[t].nCheck
               /\ tasks'[t].nExch = tasks[t].nExch]_vars
    /\ [][\A t \in Tasks :
            tasks[t].res = "ApprovalTimeout" => tasks'[t] = tasks[t]]_vars

C11_Witness ==
    \E t \in HandshakeTasks :
      /\ tasks[t].res = "ApprovalTimeout" /\ SavedConfigured
      /\ tasks[t].nExch = 1 /\ tasks[t].nLogin = 1 /\ tasks[t].sawApproved

\* C12: a getAuthHeaders call made while no Credential is held throws the
\* not-authenticated error at once: it returns no headers, sends no request,
\* and the step leaves the Credential and the cache file as they were.
C12_NoCredentialNotAuthenticated ==
    /\ [](\A t \in Tasks :
            (tasks[t].op = "getAuthHeaders" /\ tasks[t].had = "none")
            => /\ tasks[t].pc = "done" /\ tasks[t].res = "NotAuthenticated"
               /\ tasks[t].hdr = NoHdr
               /\ tasks[t].nExch = 0 /\ tasks[t].nLogin = 0
               /\ tasks[t].nCheck = 0 /\ tasks[t].nLogout = 0)
    /\ [][\A t \in Tasks :
            (tasks[t].op = "idle" /\ tasks'[t].op = "getAuthHeaders"
               /\ ~credentials.present)
            => /\ tasks'[t].res = "NotAuthenticated"
               /\ credentials' = credentials /\ cacheFile' = cacheFile]_vars

C12_Witness ==
    \E t \in Tasks :
      /\ tasks[t].op = "getAuthHeaders" /\ tasks[t].had = "none"
      /\ tasks[t].res = "NotAuthenticated"
      /\ ~credentials.present /\ cacheFile.kind = "json" /\ calls > 1

\* C13: whenever getAuthHeaders has returned normally its result holds a
\* bearer token, a syncId and a userId, each of them defined.
C13_HeadersComplete ==
    \A t \in Tasks :
      (tasks[t].op = "getAuthHeaders" /\ tasks[t].pc = "done" /\ tasks[t].res = "ok")
      => /\ tasks[t].hdr.authorization # "Bearer undefined"
         /\ tasks[t].hdr.xSyncId # Undef
         /\ tasks[t].hdr.xUserId # Undef

\* C14: clearSession never raises and is idempotent.  Its first step leaves no
\* Credential in memory, whatever was held; its second step (the deletion,
\* succeeding or failing) ends the call without an error, leaves the
\* Credential alone and the cache file absent or as it was.  Called again
\* when no Credential is held and no record exists, it changes nothing.
C14_ClearSessionIdempotent ==
    /\ [](\A t \in Tasks :
            (tasks[t].op = "clearSession" /\ tasks[t].pc = "done")
            => tasks[t].res = "ok")
    /\ [][\A t \in Tasks :
            (tasks[t].op = "idle" /\ tasks'[t].op = "clearSession")
            => /\ ~credentials'.present /\ getUserId(credentials') = Undef
               /\ cacheFile' = cacheFile
               /\ tasks'[t].pc = "unlink"]_vars
    /\ [][\A t \in Tasks :
            (tasks[t].pc = "unlink" /\ tasks'[t].pc \notin {"unlink", "idle"})
            => /\ tasks'[t].pc = "done" /\ tasks'[t].res = "ok"
               /\ credentials' = credentials
               /\ cacheFile' \in {cacheFile, AbsentFile}]_vars
    /\ [][\A t \in Tasks :
            (tasks'[t].op = "clearSession" /\ tasks'[t].had = "none"
               /\ tasks'[t] # tasks[t] /\ cacheFile.kind = "absent")
            => credentials' = credentials /\ cacheFile' = cacheFile]_vars

C14_Witness ==
    \E t \in Tasks :
      /\ tasks[t].op = "clearSession" /\ tasks[t].pc = "done" /\ tasks[t].res = "ok"
      /\ tasks[t].had = "none" /\ cleared /\ calls = 2
      /\ cacheFile.kind = "json"

\* texts an error message may put in front of the service's diagnostic
ErrorPrefixes ==
    {"", "MCP login failed: ", "Authentication failed: ", "Token refresh failed: "}

\* C15: when a request (login initiation, exchange, or the exchange of a
\* refresh) fails with a response that carries a diagnostic, the message of
\* the error the call ends in contains that diagnostic.
C15_DiagnosticSurfaced ==
    \A t \in Tasks :
      (tasks[t].pc = "done" /\ tasks[t].res # "ok" /\ tasks[t].diag # Undef)
      => \E p \in ErrorPrefixes : tasks[t].msg = p \o tasks[t].diag

C17_SaveFailureNotFatal ==
    /\ [][\A t \in Tasks :
            (tasks[t].pc \in {"mkdir", "write"}
               /\ tasks'[t].pc \notin {"mkdir", "write", "idle"}
               /\ cacheFile' = cacheFile /\ credentials.present
               /\ tasks[t].op \in {"completeAuthentication", "getAuthHeaders", "logout"})
            => /\ credentials' = credentials
               /\ tasks[t].op = "completeAuthentication" =>
                    /\ tasks'[t].pc = "done" /\ tasks'[t].res = "ok"
                    /\ tasks'[t].user = getUserId(credentials)
               /\ tasks[t].op = "getAuthHeaders" =>
                    /\ tasks'[t].pc = "done" /\ tasks'[t].res = "ok"
                    /\ tasks'[t].hdr = HeadersOf(credentials)
               /\ tasks[t].op = "logout" =>
                    /\ tasks'[t].pc = "logoutPost"
                    /\ tasks'[t].hdr = HeadersOf(credentials)]_vars
    /\ [][credentials' # credentials =>
            \/ \E t \in Tasks : tasks[t].pc = "post" /\ tasks'[t].pc \in {"mkdir", "done"}
            \/ ~credentials'.present
            \/ phase = "constructed"]_vars
    /\ [][\A t \in Tasks :
            (tasks[t].op = "idle" /\ tasks'[t].op = "getCurrentUserId")
            => tasks'[t].user = getUserId(credentials)]_vars
    /\ [][\A t \in Tasks :
            (tasks[t].op = "idle" /\ tasks'[t].op = "getAuthHeaders"
               /\ credentials.present /\ ~isTokenExpired(credentials, now))
            => /\ tasks'[t].res = "ok"
               /\ tasks'[t].hdr = HeadersOf(credentials)]_vars

C17_Witness ==
    /\ calls = 2 /\ cacheFile = AbsentFile /\ Complete(credentials)
    /\ tasks[2].op = "idle"
    /\ tasks[1].op = "getCurrentUserId" /\ tasks[1].res = "ok"
    /\ tasks[1].user = "u1"

LoginUser(tk) == IF tk.op = "login" THEN tk.uname ELSE env.username

C20_GetUserIdPure ==
    /\ [](\A t \in Tasks :
            tasks[t].op = "getCurrentUserId" =>
              /\ tasks[t].pc = "done"
              /\ tasks[t].nExch = 0 /\ tasks[t].nLogin = 0
              /\ tasks[t].nCheck = 0 /\ tasks[t].nLogout = 0
              /\ tasks[t].wire = NoBody)
    /\ [][\A t \in Tasks :
            (tasks[t].op = "idle" /\ tasks'[t].op = "getCurrentUserId")
            => /\ tasks'[t].user = getUserId(credentials)
               /\ credentials' = credentials /\ cacheFile' = cacheFile
               /\ lastSaved' = lastSaved]_vars

C20_Witness ==
    \E t \in Tasks :
      /\ tasks[t].op = "getCurrentUserId" /\ tasks[t].inSkew
      /\ tasks[t].res = "ok" /\ tasks[t].user = "u1"
      /\ isTokenExpired(credentials, now)

\* C21: once clearSession has returned with no Credential held, no step of a
\* refresh (the arrival of its exchange response, the end of its save)
\* creates a Credential in memory or writes a record to the cache file.
C21_NoRecreationAfterClear ==
    [][\A t \in Tasks :
         (cleared /\ tasks[t].op \in RefreshOps /\ tasks'[t] # tasks[t])
         => /\ credentials'.present => credentials.present
            /\ cacheFile' \in {cacheFile, AbsentFile}]_vars

---------------------------------------------------------------------------
(* The operations that read and write the session, every storage operation
   succeeding *)

NextStore ==
    \/ Initialize
    \/ Tick
    \/ \E t \in Tasks :
         \/ CallCompleteAuthentication(t)
         \/ CallGetAuthHeaders(t)
         \/ CallClearSession(t) \/ UnlinkOk(t)
         \/ CallCleanup(t)
         \/ ExchangeOk(t) \/ ExchangeFail(t)
         \/ MkdirOk(t)
         \/ WriteOk(t)
         \/ Return(t)

SpecStore == Init /\ [][NextStore]_vars

\* no call is between its start and its end
Quiescent == \A t \in Tasks : tasks[t].pc \in {"idle", "done"}

\* C22: in the running process, whenever no operation is in flight (and, as
\* in every behaviour of SpecStore, no storage operation has failed) loading
\* the cache file gives the Credential in memory: both absent, or equal field
\* for field.
C22_RecordEqualsMemory ==
    (phase = "running" /\ Quiescent)
    => loadCachedCredentials(NoCred, cacheFile) = credentials

\* C23: a getAuthHeaders call that has ended has returned headers or thrown
\* the not-authenticated or the refresh-failed error; it has not failed in
\* any other way.
C23_ThreeOutcomes ==
    \A t \in Tasks :
      (tasks[t].op = "getAuthHeaders" /\ tasks[t].pc = "done")
      => tasks[t].res \in {"ok", "NotAuthenticated", "RefreshFailed"}

\* C24: login() and a failing completeAuthentication do not touch the
\* session.  Every step of a login call (its start, the arrival of the
\* response, a failure) and the step in which the exchange request of a
\* completeAuthentication call is rejected or fails (the call then ends with
\* the authentication-failed error) leave the Credential in memory and the
\* cache file exactly as they were; so does the start of completeAuthentication.
C24_ReadOnlyElsewhere ==
    /\ [][\A t \in Tasks :
            (tasks'[t].op = "login" /\ tasks'[t] # tasks[t])
            => credentials' = credentials /\ cacheFile' = cacheFile]_vars
    /\ [][\A t \in Tasks :
            (tasks[t].op = "idle" /\ tasks'[t].op = "completeAuthentication")
            => credentials' = credentials /\ cacheFile' = cacheFile]_vars
    /\ [][\A t \in Tasks :
            (tasks[t].op = "completeAuthentication" /\ tasks[t].pc = "post"
               /\ tasks'[t].pc = "done")
            => /\ tasks'[t].res = "AuthenticationFailed"
               /\ credentials' = credentials /\ cacheFile' = cacheFile]_vars

C24_Witness ==
    /\ tasks[1].op = "login" /\ tasks[1].pc = "done" /\ tasks[1].res = "LoginFailed"
    /\ tasks[2].op = "completeAuthentication" /\ tasks[2].pc = "done"
    /\ tasks[2].res = "AuthenticationFailed" /\ tasks[2].nExch = 1
    /\ tasks[2].tok = IssuedCode(tasks[2].req)
    /\ Complete(credentials) /\ JsonParse(cacheFile) = credentials

C26_ClearOnlyAfterRemoteLogout ==
    /\ [](\A t \in Tasks :
            tasks[t].op = "logout" =>
              /\ tasks[t].pc = "unlink" => tasks[t].nLogout = 1
              /\ tasks[t].pc = "logoutPost" => tasks[t].nLogout = 1
              /\ (tasks[t].pc = "done" /\ tasks[t].res = "ok") => tasks[t].nLogout = 1)
    /\ [][\A t \in Tasks :
            (tasks'[t].op = "logout" /\ tasks'[t] # tasks[t]
               /\ tasks[t].pc \notin {"logoutPost", "unlink"})
            => /\ tasks'[t].pc # "unlink"
               /\ credentials.present => credentials'.present
               /\ cacheFile.kind = "json" => cacheFile'.kind = "json"]_vars
    /\ [][\A t \in Tasks :
            (tasks[t].op = "logout" /\ tasks[t].pc = "logoutPost"
               /\ tasks'[t].pc \notin {"logoutPost", "unlink", "idle"})
            => /\ tasks'[t].pc = "done" /\ tasks'[t].res = "LogoutFailed"
               /\ credentials' = credentials /\ cacheFile' = cacheFile]_vars
    /\ [][\A t \in Tasks :
            (tasks[t].op = "logout" /\ tasks[t].pc = "unlink" /\ tasks'[t].pc = "done")
            => tasks'[t].res = "ok"]_vars

C26_Witness ==
    \E t \in Tasks :
      /\ tasks[t].op = "logout" /\ tasks[t].pc = "done" /\ tasks[t].res = "LogoutFailed"
      /\ tasks[t].nLogout = 1 /\ tasks[t].nExch = 1
      /\ Complete(credentials) /\ JsonParse(cacheFile) = credentials
      /\ credentials.jwtToken = "jwtB"

---------------------------------------------------------------------------
(* The server's tool-call handler: one retry after a 401 *)

\* messages of the errors a tool handler may throw
HandlerErrors ==
    {"Request failed with status code 401", "Memory 401 not found",
     "Request failed with status code 500"}

\* error.message.includes('401')
Includes401(m) ==
    m \in {"Request failed with status code 401", "Memory 401 not found"}

\* (variant: the retried invocation is inside the try block as well)
retryFailedRetries(tk, m, c) ==
    IF Includes401(m)
    THEN IF ~c.present THEN Done([tk EXCEPT !.nRefresh = @ + 1], "NoCredentialsToRefresh")
         ELSE refreshToken([tk EXCEPT !.nRefresh = @ + 1], c)
    ELSE Done([tk EXCEPT !.msg = m], "HandlerFailed")

\* the retried invocation threw: nothing catches it
retryFailed(tk, m, c) == Done([tk EXCEPT !.msg = m], "HandlerFailed")

\* the catch block around the first invocation
toolCatch(tk, m, c) ==
    LET u == [tk EXCEPT !.err = m]
    IN  IF Includes401(m)
        THEN IF ~c.present
             THEN Done([u EXCEPT !.nRefresh = @ + 1], "NoCredentialsToRefresh")
             ELSE refreshToken([u EXCEPT !.nRefresh = @ + 1], c)
        ELSE Done([u EXCEPT !.msg = "Tool execution failed: " \o m],
                  "ToolExecutionFailed")

CallTool(t) ==
    /\ CanStart(t)
    /\ tasks' = [tasks EXCEPT ![t] = toolHandler(NewTask(t, "tool"))]
    /\ calls' = calls + 1
    /\ Track(t)
    /\ UNCHANGED <<phase, apiUrl, now, credentials, cacheFile, env, cleared, lastSaved>>

HandlerOk(t) ==
    /\ Running /\ tasks[t].pc = "handler"
    /\ tasks' = [tasks EXCEPT ![t] = Done(@, "ok")]
    /\ Track(t)
    /\ UNCHANGED <<phase, apiUrl, now, credentials, cacheFile, calls, env, cleared, lastSaved>>

HandlerFail(t) ==
    /\ Running /\ tasks[t].pc = "handler"
    /\ \E m \in HandlerErrors :
         tasks' = [tasks EXCEPT ![t] =
                     IF @.nHandler = 1 THEN toolCatch(@, m, credentials)
                     ELSE retryFailed(@, m, credentials)]
    /\ Track(t)
    /\ UNCHANGED <<phase, apiUrl, now, credentials, cacheFile, calls, env, cleared, lastSaved>>

NextTool ==
    \/ Initialize
    \/ \E t \in Tasks :
         \/ CallTool(t) \/ HandlerOk(t) \/ HandlerFail(t)
         \/ ExchangeOk(t) \/ ExchangeFail(t)
         \/ MkdirOk(t) \/ MkdirFail(t)
         \/ WriteOk(t) \/ WriteFail(t)
         \/ Return(t)

SpecTool == Init /\ [][NextTool]_vars

\* C27: one refresh and one retry after a 401.  A tool call invokes its
\* handler at most twice and calls refreshToken at most once.  When the first
\* invocation failed with a message that contains 401, refreshToken was
\* called exactly once (sending at most one exchange request); the handler is
\* invoked a second time exactly when that refresh has returned; a refresh
\* that failed, and a second invocation that failed - with a 401 or not - have
\* ended the call with that error.  After any other failure, or none, there
\* was no refresh and no second invocation.
C27_OneRefreshOneRetry ==
    \A t \in Tasks :
      LET tk == tasks[t]
          first401 == tk.err # Undef /\ Includes401(tk.err)
      IN  tk.op = "tool" =>
            /\ tk.nHandler \in {1, 2} /\ tk.nRefresh \in {0, 1}
            /\ tk.nExch <= tk.nRefresh
            /\ tk.nLogin = 0 /\ tk.nCheck = 0
            /\ tk.nRefresh = (IF first401 THEN 1 ELSE 0)
            /\ tk.nHandler = 2 => first401 /\ tk.nExch = 1 /\ tk.pc \in {"handler", "done"}
            /\ tk.pc \in {"post", "mkdir", "write"} => tk.nHandler = 1 /\ first401
            /\ tk.pc = "done" =>
                 /\ tk.res \in {"ok", "ToolExecutionFailed", "NoCredentialsToRefresh",
                                "RefreshFailed", "HandlerFailed"}
                 /\ tk.res = "HandlerFailed" <=> (tk.nHandler = 2 /\ tk.msg \in HandlerErrors)
                 /\ tk.res \in {"NoCredentialsToRefresh", "RefreshFailed"} =>
                      tk.nHandler = 1 /\ first401
                 /\ tk.res = "ToolExecutionFailed" => tk.nHandler = 1 /\ ~first401
                 /\ (first401 /\ tk.res = "ok") => tk.nHandler = 2

C27_Witness ==
    \E t \in Tasks :
      /\ tasks[t].op = "tool" /\ tasks[t].pc = "done" /\ tasks[t].res = "HandlerFailed"
      /\ tasks[t].err = "Request failed with status code 401"
      /\ tasks[t].msg = "Request failed with status code 401"
      /\ tasks[t].nHandler = 2 /\ tasks[t].nRefresh = 1 /\ tasks[t].nExch = 1

\* C28: the syncId is the digest of the Credential's own request id and code.
\* Every exchange request in flight carries the digest of the request id and
\* code it was started with; the step in which its response arrives creates a
\* Credential with that request id and code and with that same digest as
\* syncId; every whole Credential held, after any sequence of completions and
\* refreshes, has the digest of its own requestId and authToken as syncId; and
\* the step in which a call obtains its headers puts the syncId of the
\* Credential then held into x-sync-id.
C28_SyncIdIsDigest ==
    /\ [](\A t \in Tasks :
            tasks[t].pc = "post" =>
              tasks[t].wire = [NoBody EXCEPT
                                 !["sync_id"] = Sha256Hex(tasks[t].req, tasks[t].tok)])
    /\ [][\A t \in Tasks :
            (tasks[t].pc = "post" /\ tasks'[t].pc \in {"mkdir", "write"})
            => /\ credentials'.requestId = tasks[t].req
               /\ credentials'.authToken = tasks[t].tok
               /\ credentials'.syncId = tasks[t].wire.sync_id
               /\ credentials'.syncId =
                    Sha256Hex(credentials'.requestId, credentials'.authToken)]_vars
    /\ [](Complete(credentials) =>
            credentials.syncId = Sha256Hex(credentials.requestId, credentials.authToken))
    /\ [][\A t \in Tasks :
            (tasks[t].hdr = NoHdr /\ tasks'[t].hdr # NoHdr)
            => /\ credentials'.present
               /\ tasks'[t].hdr.xSyncId = credentials'.syncId]_vars

C28_Witness ==
    \E t \in Tasks :
      /\ tasks[t].op = "getAuthHeaders" /\ tasks[t].pc = "done" /\ tasks[t].res = "ok"
      /\ tasks[t].nExch = 1 /\ calls = 2 /\ cacheFile = AbsentFile
      /\ Complete(credentials)
      /\ tasks[t].hdr.xSyncId = Sha256Hex("r1", "happy-star")
      /\ tasks[t].hdr.xSyncId = credentials.syncId

\* C29: the handshake terminates within its budget.  Every request, timer and
\* file operation being answered in the end, a call of authenticate() that
\* has started ends, with the Credential held or with an error; the handshake
\* in it has sent at most one login request, at most 60 status requests and
\* at most one exchange request of its own.
C29_HandshakeTerminates ==
    /\ [](\A t \in HandshakeTasks :
            /\ tasks[t].nLogin <= 1
            /\ tasks[t].nCheck <= maxAttempts
            /\ HsExch(tasks[t]) <= 1
            /\ tasks[t].pc = "done" =>
                 \/ tasks[t].res = "ok" /\ Complete(credentials)
                 \/ tasks[t].res \notin {"ok", "none"})
    /\ \A t \in Tasks :
         (tasks[t].op = "authenticate") ~> (tasks[t].pc = "done")

C29_Witness ==
    \E t \in HandshakeTasks :
      /\ tasks[t].pc = "done" /\ tasks[t].res = "ok" /\ Complete(credentials)
      /\ tasks[t].nLogin = 1 /\ tasks[t].nCheck = maxAttempts
      /\ HsExch(tasks[t]) = 1 /\ now = maxAttempts * pollInterval

\* C30: authenticate() tries the saved credentials first.  With a saved
\* request id and a saved token configured its first step sends the exchange
\* request made of them and nothing else; while that attempt stands (it is in
\* flight, is being saved, or has succeeded) no login or status request has
\* been sent, and when it has succeeded the Credential is that of the saved
\* pair.  The step in which the attempt fails does not end the call with that
\* failure: it drops the error and enters performMcpLogin, which sends its
\* login request or throws its own precondition error.  With either value
\* missing the first step enters performMcpLogin directly and no exchange
\* request precedes the handshake.  In every case the handshake is run at
\* most once: one login request, one exchange request of its own.
C30_SavedFirstThenHandshake ==
    /\ [](\A t \in Tasks :
            tasks[t].op = "authenticate" =>
              /\ tasks[t].nLogin <= 1 /\ HsExch(tasks[t]) <= 1
              /\ SavedConfigured => tasks[t].nExch >= 1
              /\ ~SavedConfigured => tasks[t].via # "saved"
              /\ tasks[t].via = "saved" =>
                   /\ SavedConfigured
                   /\ tasks[t].nExch = 1 /\ tasks[t].nLogin = 0 /\ tasks[t].nCheck = 0
                   /\ tasks[t].req = env.savedReq /\ tasks[t].tok = env.savedTok
                   /\ tasks[t].pc = "post" =>
                        tasks[t].wire = ExchangeBody(Sha256Hex(env.savedReq, env.savedTok))
                   /\ (tasks[t].pc = "done" /\ tasks[t].res = "ok") =>
                        /\ credentials.requestId = env.savedReq
                        /\ credentials.authToken = env.savedTok
              /\ tasks[t].res = "AuthenticationFailed" => tasks[t].via = "handshake")
    /\ [][\A t \in Tasks :
            (tasks[t].op = "idle" /\ tasks'[t].op = "authenticate")
            => IF SavedConfigured
               THEN tasks'[t].via = "saved" /\ tasks'[t].pc = "post"
               ELSE \/ /\ tasks'[t].via = "handshake" /\ tasks'[t].pc = "loginPost"
                       /\ tasks'[t].nLogin = 1 /\ tasks'[t].nExch = 0
                    \/ /\ tasks'[t].pc = "done" /\ tasks'[t].nLogin = 0 /\ tasks'[t].nExch = 0
                       /\ tasks'[t].res \in {"ApiUrlRequired", "CredentialsRequired"}]_vars
    /\ [][\A t \in Tasks :
            (tasks[t].op = "authenticate" /\ tasks[t].via = "saved" /\ tasks[t].pc = "post"
               /\ tasks'[t].pc \notin {"post", "mkdir", "write"})
            => /\ tasks'[t].msg = Undef /\ tasks'[t].diag = Undef
               /\ credentials' = credentials
               /\ \/ /\ tasks'[t].via = "handshake" /\ tasks'[t].pc = "loginPost"
                     /\ tasks'[t].nLogin = 1 /\ tasks'[t].nCheck = 0
                  \/ /\ tasks'[t].pc = "done"
                     /\ tasks'[t].res \in {"ApiUrlRequired", "CredentialsRequired"}]_vars

C30_Witness ==
    \E t \in Tasks :
      /\ tasks[t].op = "authenticate" /\ SavedConfigured /\ env.savedTok = "Happy-Star"
      /\ tasks[t].via = "handshake" /\ tasks[t].pc = "done" /\ tasks[t].res = "ok"
      /\ tasks[t].nExch = 2 /\ tasks[t].nLogin = 1 /\ tasks[t].nCheck = 1
      /\ credentials.authToken = "happy-star"

====
